---- MODULE Spec2Model ----
(***************************************************************************)
(* A model of gopcp.v2/chapter3/socket/tcp_socket.go: a TCP server that    *)
(* reads tab-delimited requests, answers each with the cube root of the    *)
(* integer it carries, and closes connections idle for ten seconds.        *)
(*                                                                         *)
(* A byte is a one-character string.  The literal segments of the format   *)
(* strings (for instance "The cube root of ") travel as one stream element *)
(* each; the characters of the arguments travel one by one.                *)
(***************************************************************************)
EXTENDS Integers, Sequences, FiniteSets, TLC

\* ------------------------------------------------------------------ bounds
\* Number of connection slots: slot 1 is clientGo(1), the others are peers
\* outside the process that dial the same address.
NConns == 2
\* Messages a peer outside the process sends on its connection.
MaxPeerMsgs == 2
\* A read that returns no byte and no error is taken only while read's buffer
\* is shorter than this.
MaxZeroBuf == 2

\* ------------------------------------------------------- program constants
DELIMITER == "\t"
\* handleConn: conn.SetReadDeadline(time.Now().Add(10 * time.Second))
IdleTimeout == 10
\* main: wg.Add(2)
WgInitial == 2
\* clientGo: requestNumber := 5
requestNumber == 5

Conns == 1..NConns
ClientConn == 1

\* --------------------------------------------------------- sequence helpers
RECURSIVE Flatten(_)
Flatten(ss) == IF ss = <<>> THEN <<>> ELSE Head(ss) \o Flatten(Tail(ss))

IsPrefix(s, t) == Len(s) <= Len(t) /\ SubSeq(t, 1, Len(s)) = s

\* The messages of a byte stream: the maximal delimiter-free runs that are
\* followed by a delimiter (an unterminated tail is no message).
RECURSIVE SplitAcc(_, _, _)
SplitAcc(stream, cur, acc) ==
  IF stream = <<>> THEN acc
  ELSE IF Head(stream) = DELIMITER
       THEN SplitAcc(Tail(stream), <<>>, Append(acc, cur))
       ELSE SplitAcc(Tail(stream), Append(cur, Head(stream)), acc)
Messages(stream) == SplitAcc(stream, <<>>, <<>>)

\* ------------------------------------------------------------ strToInt32
Digits == <<"0", "1", "2", "3", "4", "5", "6", "7", "8", "9">>
IsDigit(b) == \E i \in 1..10 : Digits[i] = b
DigitVal(b) == (CHOOSE i \in 1..10 : Digits[i] = b) - 1

RECURSIVE StripZeros(_)
StripZeros(ds) ==
  IF Len(ds) > 1 /\ Head(ds) = "0" THEN StripZeros(Tail(ds)) ELSE ds

\* Comparison of two decimal magnitudes without leading zeros: -1, 0 or 1.
RECURSIVE CmpSameLen(_, _)
CmpSameLen(a, b) ==
  IF a = <<>> THEN 0
  ELSE IF DigitVal(Head(a)) < DigitVal(Head(b)) THEN -1
  ELSE IF DigitVal(Head(a)) > DigitVal(Head(b)) THEN 1
  ELSE CmpSameLen(Tail(a), Tail(b))
CmpMag(a, b) ==
  IF Len(a) < Len(b) THEN -1
  ELSE IF Len(a) > Len(b) THEN 1
  ELSE CmpSameLen(a, b)

MaxInt64Mag == <<"9","2","2","3","3","7","2","0","3","6","8","5","4","7","7","5","8","0","7">>
MinInt64Mag == <<"9","2","2","3","3","7","2","0","3","6","8","5","4","7","7","5","8","0","8">>
MaxInt32Mag == <<"2","1","4","7","4","8","3","6","4","7">>
MinInt32Mag == <<"2","1","4","7","4","8","3","6","4","8">>

\* strconv.ParseInt(str, 10, 0): an optional sign, then one or more decimal
\* digits; the value must fit the 64-bit int.  A number is kept as its sign
\* and its magnitude's digits, so that no width is lost.
ParseInt(str) ==
  LET signed == str # <<>> /\ Head(str) \in {"+", "-"}
      body   == IF signed THEN Tail(str) ELSE str
      neg    == signed /\ Head(str) = "-"
      mag    == StripZeros(body)
  IN  IF body = <<>> \/ \E i \in 1..Len(body) : ~IsDigit(body[i])
        THEN [err |-> "syntax", neg |-> FALSE, mag |-> <<"0">>]
      ELSE IF CmpMag(mag, IF neg THEN MinInt64Mag ELSE MaxInt64Mag) = 1
        THEN [err |-> "range", neg |-> neg, mag |-> mag]
      ELSE [err |-> "none", neg |-> neg /\ mag # <<"0">>, mag |-> mag]

\* fmt's %d of a number kept as sign and magnitude.
FormatInt(neg, mag) == (IF neg THEN <<"-">> ELSE <<>>) \o mag

NotIntegerMsg(str) == <<"\"">> \o str \o <<"\" is not integer">>
OutOfRangeMsg(neg, mag) == FormatInt(neg, mag) \o <<" is not 32-bit integer">>

\* A faulty variant: the ends of the range are taken to be outside it.
strToInt32Exclusive(str) ==
  LET p == ParseInt(str)
  IN  IF p.err # "none"
        THEN [ok |-> FALSE, neg |-> FALSE, mag |-> <<"0">>,
              msg |-> NotIntegerMsg(str)]
      ELSE IF CmpMag(p.mag, IF p.neg THEN MinInt32Mag ELSE MaxInt32Mag) >= 0
        THEN [ok |-> FALSE, neg |-> FALSE, mag |-> <<"0">>,
              msg |-> OutOfRangeMsg(p.neg, p.mag)]
      ELSE [ok |-> TRUE, neg |-> p.neg, mag |-> p.mag, msg |-> <<>>]

\* strToInt32: the int32 value, or the error whose text is sent back.
strToInt32(str) ==
  LET p == ParseInt(str)
  IN  IF p.err # "none"
        THEN [ok |-> FALSE, neg |-> FALSE, mag |-> <<"0">>,
              msg |-> NotIntegerMsg(str)]
      ELSE IF CmpMag(p.mag, IF p.neg THEN MinInt32Mag ELSE MaxInt32Mag) = 1
        THEN [ok |-> FALSE, neg |-> FALSE, mag |-> <<"0">>,
              msg |-> OutOfRangeMsg(p.neg, p.mag)]
      ELSE [ok |-> TRUE, neg |-> p.neg, mag |-> p.mag, msg |-> <<>>]

\* ------------------------------------------------------------------ cbrt
\* The value of a magnitude of at most four digits.
RECURSIVE MagVal(_, _)
MagVal(ds, acc) ==
  IF ds = <<>> THEN acc ELSE MagVal(Tail(ds), 10 * acc + DigitVal(Head(ds)))

RECURSIVE NatDigits(_)
NatDigits(n) ==
  IF n < 10 THEN <<Digits[n + 1]>>
  ELSE Append(NatDigits(n \div 10), Digits[(n % 10) + 1])

\* math.Cbrt of an int32 printed with %f.  The integer part is exact; the six
\* fractional digits are exact for a perfect cube (all zeros) and are carried
\* as the one element "frac" otherwise, and for magnitudes over four digits
\* the whole root is the one element "root".
CbrtText(neg, mag) ==
  IF Len(mag) > 4 THEN <<"root">>
  ELSE LET v == MagVal(mag, 0)
           r == CHOOSE x \in 0..21 : x * x * x <= v /\ (x + 1) * (x + 1) * (x + 1) > v
       IN  FormatInt(neg, NatDigits(r)) \o <<".">> \o
           (IF r * r * r = v THEN <<"0", "0", "0", "0", "0", "0">> ELSE <<"frac">>)

\* fmt.Sprintf("The cube root of %d is %f.", intReq, floatResp)
RespMsg(neg, mag) ==
  <<"The cube root of ">> \o FormatInt(neg, mag) \o <<" is ">> \o
  CbrtText(neg, mag) \o <<".">>

\* What handleConn sends back for the request text str.
Response(str) ==
  LET r == strToInt32(str)
  IN  IF r.ok THEN RespMsg(r.neg, r.mag) ELSE r.msg

\* A faulty variant: the line ending of a text protocol closes the message.
FrameCrLf(content) == content \o <<"\r", DELIMITER>>

\* write: the content followed by the delimiter, as one outbound buffer.
Frame(content) == Append(content, DELIMITER)


\* ------------------------------------------------------------------ state
VARIABLES
  proc,       \* the process: "running", "mainReturned", "panicAccept", "panicWaitGroup"
  wg,         \* the counter of the package-level sync.WaitGroup
  srv,        \* serverGo: "listen", "accepting", "returned"
  link,       \* per connection: "none", "pending" (dialled, not yet accepted), "accepted"
  c2s,        \* per connection: bytes sent to the server and not yet read by it
  arrived,    \* per connection: every byte ever sent to the server (history)
  s2c,        \* per connection: every byte the server has written to it (history)
  peerClosed, \* per connection: the peer has closed its side
  broken,     \* per connection: the transport has failed (reset)
  pc,         \* handleConn(conn): "none", "read", "write", "closing", "exit"
  buf,        \* read's bytes.Buffer
  readBytes,  \* read's one-byte slice: readBytes[0]
  out,        \* the message handleConn is about to write, and whether it is an error text
  deadline,   \* the connection's read deadline, as the seconds left until it
  idle,       \* seconds since the later of the handler's start and the last byte's
              \* arrival (history)
  waited,     \* seconds spent in the current call of read (history)
  reqsRead,   \* the requests read returned to handleConn, in order (history)
  writes,     \* handleConn's calls of write: the content, whether it succeeded and
              \* the count it returned, in stream elements (history)
  exitCause,  \* why the loop was left: "none", "eof", "timeout", "ioerr"
  closes,     \* calls of conn.Close() by the handler (history)
  dones,      \* calls of wg.Done() by the handler (history)
  cpc,        \* clientGo(1): "dial", "send", "recv", "close", "exit"
  ci,         \* clientGo's loop counter i, then j
  cgot,       \* responses clientGo has read
  peerMsgs    \* per connection: what an outside peer has sent, send by send (history)

vars == <<proc, wg, srv, link, c2s, arrived, s2c, peerClosed, broken, pc, buf,
          readBytes, out, deadline, idle, waited, reqsRead, writes, exitCause, closes,
          dones, cpc, ci, cgot, peerMsgs>>

netVars == <<link, c2s, arrived, s2c, peerClosed, broken>>
hVars == <<pc, buf, readBytes, out, deadline, idle, waited, reqsRead, writes, exitCause, closes, dones>>
cVars == <<cpc, ci, cgot>>

\* What rand.Int31() is drawn from.
ClientReqs == {<<"8">>}
\* What a peer outside the process sends in one write: a valid request, an
\* invalid one, or the start of a request with no delimiter yet.
PeerChunks == {<<"8", DELIMITER>>, <<"a", DELIMITER>>, <<"-">>}

NoOut == [msg |-> <<>>, isErr |-> FALSE]

\* The byte of value 0, which make([]byte, 1) holds.
ZeroByte == "0x00"

Init ==
  /\ proc = "running"
  /\ wg = WgInitial
  /\ srv = "listen"
  /\ link = [c \in Conns |-> "none"]
  /\ c2s = [c \in Conns |-> <<>>]
  /\ arrived = [c \in Conns |-> <<>>]
  /\ s2c = [c \in Conns |-> <<>>]
  /\ peerClosed = [c \in Conns |-> FALSE]
  /\ broken = [c \in Conns |-> FALSE]
  /\ pc = [c \in Conns |-> "none"]
  /\ buf = [c \in Conns |-> <<>>]
  /\ readBytes = [c \in Conns |-> ZeroByte]
  /\ out = [c \in Conns |-> NoOut]
  /\ deadline = [c \in Conns |-> 0]
  /\ idle = [c \in Conns |-> 0]
  /\ waited = [c \in Conns |-> 0]
  /\ reqsRead = [c \in Conns |-> <<>>]
  /\ writes = [c \in Conns |-> <<>>]
  /\ exitCause = [c \in Conns |-> "none"]
  /\ closes = [c \in Conns |-> 0]
  /\ dones = [c \in Conns |-> 0]
  /\ cpc = "dial"
  /\ ci = 0
  /\ cgot = 0
  /\ peerMsgs = [c \in Conns |-> <<>>]

Running == proc = "running"

\* wg.Done(): the counter goes down by one; below zero it panics.
WgDone ==
  /\ wg' = wg - 1
  /\ proc' = IF wg - 1 < 0 THEN "panicWaitGroup" ELSE proc

\* A handler blocked in conn.Read: nothing to read, no error to report yet.
Blocked(c) ==
  /\ pc[c] = "read" /\ c2s[c] = <<>> /\ ~peerClosed[c] /\ ~broken[c]
  /\ deadline[c] > 0

\* No handler can take a step.  The peers' and the client's steps are taken in
\* such states only: a byte that arrives, a peer that closes or a response
\* that is picked up while a handler is between two blocking calls has the
\* effect it has right after the handler blocks, so the other orders add no
\* behaviour of a handler.  A transport failure, which decides the outcome of
\* a write, may come at any time.
Settled == \A c \in Conns : pc[c] \in {"none", "exit"} \/ Blocked(c)

\* ------------------------------------------------------------------ main
\* wg.Wait() returns when the counter is zero, and main with it: the process
\* ends, and every goroutine with it.
MainReturn ==
  /\ Running /\ wg = 0
  /\ proc' = "mainReturned"
  /\ UNCHANGED <<wg, srv, netVars, hVars, cVars, peerMsgs>>

\* -------------------------------------------------------------- serverGo
SrvListen ==
  /\ Running /\ srv = "listen"
  /\ srv' = "accepting"
  /\ UNCHANGED <<proc, wg, netVars, hVars, cVars, peerMsgs>>

\* net.Listen fails: serverGo logs and returns (it calls no wg.Done).
SrvListenFail ==
  /\ Running /\ srv = "listen"
  /\ srv' = "returned"
  /\ UNCHANGED <<proc, wg, netVars, hVars, cVars, peerMsgs>>

\* A faulty variant: the deadline is set once, before the loop.
ReadDeadlineOnce(c) == IF pc[c] = "none" THEN IdleTimeout ELSE deadline[c]

\* time.Now().Add(10 * time.Second), the deadline handleConn sets at the top
\* of every turn of its loop.
ReadDeadline(c) == IdleTimeout

\* The top of handleConn's loop: conn.SetReadDeadline(...), then read(conn)
\* starts with an empty buffer.
LoopTop(c) ==
  /\ deadline' = [deadline EXCEPT ![c] = ReadDeadline(c)]
  /\ buf' = [buf EXCEPT ![c] = <<>>]
  /\ readBytes' = [readBytes EXCEPT ![c] = ZeroByte]
  /\ waited' = [waited EXCEPT ![c] = 0]

\* listener.Accept() returns a connection: go handleConn(conn), which enters
\* its loop.  The WaitGroup is not touched.
SrvAccept(c) ==
  /\ Running /\ srv = "accepting" /\ link[c] = "pending"
  /\ link' = [link EXCEPT ![c] = "accepted"]
  /\ pc' = [pc EXCEPT ![c] = "read"]
  /\ LoopTop(c)
  /\ idle' = [idle EXCEPT ![c] = 0]
  /\ UNCHANGED <<proc, wg, srv, c2s, arrived, s2c, peerClosed, broken, out,
                 reqsRead, writes, exitCause, closes, dones, cVars, peerMsgs>>

\* listener.Accept() returns (nil, err): the error is logged, and the next
\* statement calls conn.RemoteAddr() on the nil connection, which panics.
SrvAcceptErr ==
  /\ Running /\ srv = "accepting"
  /\ proc' = "panicAccept"
  /\ UNCHANGED <<wg, srv, netVars, hVars, cVars, peerMsgs>>

\* ------------------------------------------------------------ handleConn
\* A faulty variant: a reader with a read-ahead buffer, made anew by every
\* call, takes everything that is there.
ConsumeAhead(stream) == <<>>

\* What conn.Read into a one-byte slice leaves unread on the connection.
Consume(stream) == Tail(stream)

\* After the request text is parsed: the message to write back.
Reply(str) == [msg |-> Response(str), isErr |-> ~strToInt32(str).ok]

\* A faulty variant: an invalid request is skipped without an answer.
AfterRequestSkipInvalid(str) == IF strToInt32(str).ok THEN "write" ELSE "read"

\* Where handleConn goes once read has returned the request str: to a write,
\* of the error text or of the result.
AfterRequest(str) == "write"

\* A faulty variant: the delimiter is kept at the end of the message.
GatheredWithDelimiter(c, b) ==
  IF b = DELIMITER
    THEN /\ reqsRead' = [reqsRead EXCEPT ![c] = Append(@, Append(buf[c], b))]
         /\ out' = [out EXCEPT ![c] = Reply(Append(buf[c], b))]
         /\ pc' = [pc EXCEPT ![c] = "write"]
         /\ buf' = [buf EXCEPT ![c] = <<>>]
         /\ readBytes' = [readBytes EXCEPT ![c] = ZeroByte]
         /\ UNCHANGED <<deadline, waited>>
    ELSE /\ buf' = [buf EXCEPT ![c] = Append(@, b)]
         /\ readBytes' = [readBytes EXCEPT ![c] = b]
         /\ UNCHANGED <<reqsRead, out, pc, deadline, waited>>

\* The rest of a turn of read's loop, once conn.Read has returned without an
\* error and readBytes[0] is b: the delimiter ends the message, which
\* handleConn parses and answers; any other byte goes to the buffer.
Gathered(c, b) ==
  IF b = DELIMITER
    THEN /\ reqsRead' = [reqsRead EXCEPT ![c] = Append(@, buf[c])]
         /\ out' = [out EXCEPT ![c] = Reply(buf[c])]
         /\ pc' = [pc EXCEPT ![c] = AfterRequest(buf[c])]
         /\ IF AfterRequest(buf[c]) = "read"
              THEN LoopTop(c)
              ELSE /\ buf' = [buf EXCEPT ![c] = <<>>]
                   /\ readBytes' = [readBytes EXCEPT ![c] = ZeroByte]
                   /\ UNCHANGED <<deadline, waited>>
    ELSE /\ buf' = [buf EXCEPT ![c] = Append(@, b)]
         /\ readBytes' = [readBytes EXCEPT ![c] = b]
         /\ UNCHANGED <<reqsRead, out, pc, deadline, waited>>

\* One turn of read's loop when conn.Read delivers a byte into readBytes.
HReadByte(c) ==
  /\ Running /\ pc[c] = "read" /\ c2s[c] # <<>> /\ deadline[c] > 0
  /\ c2s' = [c2s EXCEPT ![c] = Consume(c2s[c])]
  /\ Gathered(c, Head(c2s[c]))
  /\ UNCHANGED <<proc, wg, srv, link, arrived, s2c, peerClosed, broken, idle, writes,
                 exitCause, closes, dones, cVars, peerMsgs>>

\* One turn of read's loop when conn.Read returns (0, nil): the count is
\* dropped ("_, err :="), the error is nil, and readBytes[0] still holds what
\* it held before the call.
HReadZero(c) ==
  /\ Running /\ pc[c] = "read" /\ deadline[c] > 0
  /\ Len(buf[c]) < MaxZeroBuf
  /\ Gathered(c, readBytes[c])
  /\ UNCHANGED <<proc, wg, srv, netVars, idle, writes, exitCause, closes, dones,
                 cVars, peerMsgs>>

\* A faulty variant: at the end of the stream read returns what it has
\* gathered as a last message.
ReadFailsDeliverPartial(c, cause) ==
  /\ Running /\ pc[c] = "read"
  /\ exitCause' = [exitCause EXCEPT ![c] = cause]
  /\ reqsRead' = [reqsRead EXCEPT ![c] = IF cause = "eof" THEN Append(@, buf[c]) ELSE @]
  /\ buf' = [buf EXCEPT ![c] = <<>>]
  /\ readBytes' = [readBytes EXCEPT ![c] = ZeroByte]
  /\ pc' = [pc EXCEPT ![c] = "closing"]
  /\ UNCHANGED <<proc, wg, srv, netVars, out, deadline, idle, waited, writes,
                 closes, dones, cVars, peerMsgs>>

\* A faulty variant: a timeout is logged and the loop goes on.
AfterReadErrorRetryTimeout(cause) == IF cause = "timeout" THEN "read" ELSE "closing"

\* Where handleConn goes when read returned an error: io.EOF or any other
\* error is logged, and "break" leaves the loop for the deferred function.
AfterReadError(cause) == "closing"

\* conn.Read fails: read returns ("", err) and handleConn breaks out of its
\* loop, whatever the buffer held.
ReadFails(c, cause) ==
  /\ Running /\ pc[c] = "read"
  /\ exitCause' = [exitCause EXCEPT ![c] = cause]
  /\ buf' = [buf EXCEPT ![c] = <<>>]
  /\ readBytes' = [readBytes EXCEPT ![c] = ZeroByte]
  /\ pc' = [pc EXCEPT ![c] = AfterReadError(cause)]
  /\ UNCHANGED <<proc, wg, srv, netVars, out, deadline, idle, waited, reqsRead,
                 writes, closes, dones, cVars, peerMsgs>>

\* io.EOF: the peer has closed and nothing is left to read.
HReadEOF(c) ==
  /\ c2s[c] = <<>> /\ peerClosed[c] /\ ~broken[c] /\ deadline[c] > 0
  /\ ReadFails(c, "eof")

\* The read deadline has passed.
HReadTimeout(c) ==
  /\ deadline[c] <= 0
  /\ ReadFails(c, "timeout")

\* Any other transport error.
HReadIOErr(c) ==
  /\ c2s[c] = <<>> /\ broken[c] /\ deadline[c] > 0
  /\ ReadFails(c, "ioerr")

\* A faulty variant: every handler writes to the connection accepted first.
WriteTargetShared(c) == ClientConn

\* The connection handleConn writes its answer to: its own.
WriteTarget(c) == c

\* A faulty variant: the loop is left after an error text was sent.
AfterWriteBreakOnInvalid(isErr, ok) == IF isErr THEN "closing" ELSE "read"

\* Where handleConn goes after write returned, for an error text or a result,
\* with or without an error from write: the outcome is logged and the loop
\* goes on ("continue", or the end of the loop's body).
AfterWrite(isErr, ok) == "read"

\* The step after write returned.
Written(c, ok) ==
  /\ writes' = [writes EXCEPT ![c] =
                  Append(@, [msg |-> out[c].msg, ok |-> ok,
                             n |-> IF ok THEN Len(Frame(out[c].msg)) ELSE 0])]
  /\ pc' = [pc EXCEPT ![c] = AfterWrite(out[c].isErr, ok)]
  /\ IF AfterWrite(out[c].isErr, ok) = "read"
       THEN LoopTop(c)
       ELSE UNCHANGED <<deadline, buf, readBytes, waited>>

\* write(conn, ...) succeeds: the content and the delimiter go out in one
\* conn.Write.
HWrite(c) ==
  /\ Running /\ pc[c] = "write" /\ ~broken[c]
  /\ s2c' = [s2c EXCEPT ![WriteTarget(c)] = @ \o Frame(out[c].msg)]
  /\ Written(c, TRUE)
  /\ UNCHANGED <<proc, wg, srv, link, c2s, arrived, peerClosed, broken, out,
                 idle, reqsRead, exitCause, closes, dones, cVars, peerMsgs>>

\* write(conn, ...) returns an error: the transport is broken.
HWriteFail(c) ==
  /\ Running /\ pc[c] = "write" /\ broken[c]
  /\ Written(c, FALSE)
  /\ UNCHANGED <<proc, wg, srv, netVars, out, idle, reqsRead, exitCause,
                 closes, dones, cVars, peerMsgs>>

\* A faulty variant: the deferred function without conn.Close().
HReleaseNoClose(c) ==
  /\ Running /\ pc[c] = "closing"
  /\ WgDone
  /\ dones' = [dones EXCEPT ![c] = @ + 1]
  /\ pc' = [pc EXCEPT ![c] = "exit"]
  /\ UNCHANGED <<srv, netVars, buf, readBytes, out, deadline, idle, waited, reqsRead, writes,
                 exitCause, closes, cVars, peerMsgs>>

\* The deferred function: conn.Close(), then wg.Done().
HRelease(c) ==
  /\ Running /\ pc[c] = "closing"
  /\ closes' = [closes EXCEPT ![c] = @ + 1]
  /\ WgDone
  /\ dones' = [dones EXCEPT ![c] = @ + 1]
  /\ pc' = [pc EXCEPT ![c] = "exit"]
  /\ UNCHANGED <<srv, netVars, buf, readBytes, out, deadline, idle, waited, reqsRead, writes,
                 exitCause, cVars, peerMsgs>>

\* Bytes are sent to the server's end of connection c; they are dropped if
\* the server has closed it.
Arrive(c, bytes) ==
  IF closes[c] > 0
    THEN UNCHANGED <<c2s, arrived, idle>>
    ELSE /\ c2s' = [c2s EXCEPT ![c] = @ \o bytes]
         /\ arrived' = [arrived EXCEPT ![c] = @ \o bytes]
         /\ idle' = [idle EXCEPT ![c] = 0]

\* -------------------------------------------------------------- clientGo
\* net.DialTimeout succeeds; then the sleep and conn.SetDeadline.
CDial ==
  /\ Running /\ Settled /\ cpc = "dial" /\ srv = "accepting"
  /\ link' = [link EXCEPT ![ClientConn] = "pending"]
  /\ cpc' = "send"
  /\ UNCHANGED <<proc, wg, srv, c2s, arrived, s2c, peerClosed, broken, hVars, ci,
                 cgot, peerMsgs>>

\* net.DialTimeout fails: clientGo returns, and its deferred wg.Done() runs.
CDialFail ==
  /\ Running /\ Settled /\ cpc = "dial"
  /\ WgDone
  /\ cpc' = "exit"
  /\ UNCHANGED <<srv, netVars, hVars, ci, cgot, peerMsgs>>

\* The step of the sending loop's counter; after requestNumber turns the
\* receiving loop starts.
SendTurn ==
  /\ ci' = IF ci + 1 = requestNumber THEN 0 ELSE ci + 1
  /\ cpc' = IF ci + 1 = requestNumber THEN "recv" ELSE "send"

\* write(conn, fmt.Sprintf("%d", rand.Int31())) succeeds.
CSend(r) ==
  /\ Running /\ Settled /\ cpc = "send"
  /\ Arrive(ClientConn, Frame(r))
  /\ SendTurn
  /\ UNCHANGED <<proc, wg, srv, link, s2c, peerClosed, broken, pc, buf, readBytes,
                 out, deadline, waited, reqsRead, writes, exitCause, closes, dones, cgot,
                 peerMsgs>>

\* write fails (the server has closed the connection): logged, continue.
CSendFail ==
  /\ Running /\ Settled /\ cpc = "send" /\ closes[ClientConn] > 0
  /\ SendTurn
  /\ UNCHANGED <<proc, wg, srv, netVars, hVars, cgot, peerMsgs>>

\* read(conn) returns the next response.
CRecv ==
  /\ Running /\ Settled /\ cpc = "recv" /\ cgot < Len(Messages(s2c[ClientConn]))
  /\ cgot' = cgot + 1
  /\ ci' = ci + 1
  /\ cpc' = IF ci + 1 = requestNumber THEN "close" ELSE "recv"
  /\ UNCHANGED <<proc, wg, srv, netVars, hVars, peerMsgs>>

\* read(conn) fails (deadline, EOF, reset): break.
CRecvErr ==
  /\ Running /\ Settled /\ cpc = "recv"
  /\ cpc' = "close"
  /\ UNCHANGED <<proc, wg, srv, netVars, hVars, ci, cgot, peerMsgs>>

\* The deferred calls, last registered first: conn.Close(), then wg.Done().
CRelease ==
  /\ Running /\ Settled /\ cpc = "close"
  /\ peerClosed' = [peerClosed EXCEPT ![ClientConn] = TRUE]
  /\ WgDone
  /\ cpc' = "exit"
  /\ UNCHANGED <<srv, link, c2s, arrived, s2c, broken, hVars, ci, cgot, peerMsgs>>

\* ------------------------------------------- peers outside the process
PeerConnect(c) ==
  /\ Running /\ Settled /\ c # ClientConn /\ srv = "accepting" /\ link[c] = "none"
  /\ link' = [link EXCEPT ![c] = "pending"]
  /\ UNCHANGED <<proc, wg, srv, c2s, arrived, s2c, peerClosed, broken, hVars,
                 cVars, peerMsgs>>

\* An outside peer hands the bytes of chunk to its connection.
PeerSend(c, chunk) ==
  /\ Running /\ Settled /\ c # ClientConn /\ link[c] # "none"
  /\ ~peerClosed[c] /\ ~broken[c] /\ closes[c] = 0
  /\ Len(peerMsgs[c]) < MaxPeerMsgs
  /\ Arrive(c, chunk)
  /\ peerMsgs' = [peerMsgs EXCEPT ![c] = Append(@, chunk)]
  /\ UNCHANGED <<proc, wg, srv, link, s2c, peerClosed, broken, pc, buf, readBytes,
                 out, deadline, waited, reqsRead, writes, exitCause, closes, dones, cVars>>

\* An outside peer sends content with this package's write, as clientGo
\* does: write(conn, content).
PeerWrite(c, content) ==
  /\ Running /\ Settled /\ c # ClientConn /\ link[c] # "none"
  /\ ~peerClosed[c] /\ ~broken[c] /\ closes[c] = 0
  /\ Len(peerMsgs[c]) < MaxPeerMsgs
  /\ Arrive(c, Frame(content))
  /\ peerMsgs' = [peerMsgs EXCEPT ![c] = Append(@, content)]
  /\ UNCHANGED <<proc, wg, srv, link, s2c, peerClosed, broken, pc, buf, readBytes,
                 out, deadline, waited, reqsRead, writes, exitCause, closes, dones, cVars>>

PeerClose(c) ==
  /\ Running /\ Settled /\ c # ClientConn /\ link[c] # "none" /\ ~peerClosed[c]
  /\ peerClosed' = [peerClosed EXCEPT ![c] = TRUE]
  /\ UNCHANGED <<proc, wg, srv, link, c2s, arrived, s2c, broken, hVars, cVars,
                 peerMsgs>>

\* The transport of an accepted connection fails.  Failures are injected on
\* the connections of outside peers; clientGo's connection is the loopback one.
NetBreak(c) ==
  /\ Running /\ c # ClientConn /\ link[c] = "accepted" /\ ~broken[c] /\ closes[c] = 0
  /\ broken' = [broken EXCEPT ![c] = TRUE]
  /\ UNCHANGED <<proc, wg, srv, link, c2s, arrived, s2c, peerClosed, hVars, cVars,
                 peerMsgs>>

\* ------------------------------------------------------------------ time
HalfIdle == IdleTimeout \div 2

\* HalfIdle seconds pass.  Time passes while a handler is blocked and no
\* handler can take a step, and a deadline fires before time passes it.  (Time
\* that passes while no handler waits changes nothing the program reads.)
Tick ==
  /\ Running
  /\ \E c \in Conns : Blocked(c)
  /\ Settled
  /\ \A c \in Conns : Blocked(c) => deadline[c] >= HalfIdle
  /\ deadline' = [c \in Conns |-> IF Blocked(c) THEN deadline[c] - HalfIdle
                                   ELSE deadline[c]]
  /\ idle' = [c \in Conns |-> IF Blocked(c) THEN idle[c] + HalfIdle ELSE idle[c]]
  /\ waited' = [c \in Conns |-> IF Blocked(c) THEN waited[c] + HalfIdle
                                 ELSE waited[c]]
  /\ UNCHANGED <<proc, wg, srv, netVars, pc, buf, readBytes, out, reqsRead, writes, exitCause,
                 closes, dones, cVars, peerMsgs>>

\* ------------------------------------------------------------------ spec
Next ==
  \/ MainReturn
  \/ SrvListen
  \/ SrvListenFail
  \/ SrvAcceptErr
  \/ \E c \in Conns : SrvAccept(c)
  \/ \E c \in Conns : HReadByte(c)
  \/ \E c \in Conns : HReadEOF(c)
  \/ \E c \in Conns : HReadTimeout(c)
  \/ \E c \in Conns : HReadIOErr(c)
  \/ \E c \in Conns : HWrite(c)
  \/ \E c \in Conns : HWriteFail(c)
  \/ \E c \in Conns : HRelease(c)
  \/ CDial
  \/ CDialFail
  \/ \E r \in ClientReqs : CSend(r)
  \/ CSendFail
  \/ CRecv
  \/ CRecvErr
  \/ CRelease
  \/ \E c \in Conns : PeerConnect(c)
  \/ \E c \in Conns, chunk \in PeerChunks : PeerSend(c, chunk)
  \/ \E c \in Conns : PeerClose(c)
  \/ \E c \in Conns : NetBreak(c)
  \/ Tick

Spec == Init /\ [][Next]_vars

\* The server and the peers outside the process, on a transport whose Read
\* may return no byte and no error (an io.Reader may): clientGo and the
\* failures of the transport are left out of these behaviours.
NextZeroRead ==
  \/ SrvListen
  \/ \E c \in Conns : SrvAccept(c)
  \/ \E c \in Conns : HReadByte(c)
  \/ \E c \in Conns : HReadZero(c)
  \/ \E c \in Conns : HReadEOF(c)
  \/ \E c \in Conns : HReadTimeout(c)
  \/ \E c \in Conns : HWrite(c)
  \/ \E c \in Conns : HRelease(c)
  \/ \E c \in Conns : PeerConnect(c)
  \/ \E c \in Conns, chunk \in PeerChunks : PeerSend(c, chunk)
  \/ \E c \in Conns : PeerClose(c)
  \/ Tick

SpecZeroRead == Init /\ [][NextZeroRead]_vars

\* The request texts an outside peer writes in the behaviours below: empty,
\* not a number, small numbers, the ends of the int32 range and the values
\* next to them, the ends of the int64 range and the value after its upper end.
BelowMinInt32Mag == <<"2","1","4","7","4","8","3","6","4","9">>
Requests ==
  { <<>>, <<"a">>, <<"0">>, <<"7">>, <<"8">>, <<"-", "2", "7">>,
    MaxInt32Mag, <<"-">> \o MinInt32Mag,
    MinInt32Mag, <<"-">> \o BelowMinInt32Mag,
    MaxInt64Mag, <<"-">> \o MinInt64Mag,
    MinInt64Mag }

\* The connection of the one outside peer in these behaviours.
ReqConn == NConns

\* The server and one outside peer that writes requests with write and
\* keeps its connection open: the accept, and the handler's turns of read,
\* strToInt32, cbrt and write.
NextRequests ==
  \/ SrvListen
  \/ PeerConnect(ReqConn)
  \/ SrvAccept(ReqConn)
  \/ \E r \in Requests : PeerWrite(ReqConn, r)
  \/ HReadByte(ReqConn)
  \/ HWrite(ReqConn)

SpecRequests == Init /\ [][NextRequests]_vars

\* ---------------------------------------------------------------- claims
FramesOf(msgs) == Flatten([k \in 1..Len(msgs) |-> Frame(msgs[k])])
Serving(c) == pc[c] \in {"read", "write"}

\* C1: successive calls of read on a connection return the messages of its
\* byte stream in order; each call takes the bytes up to and including the
\* first unread delimiter and nothing after it, so that what was read, what is
\* in read's buffer and what is still unread make up exactly what arrived.
C1_ReadFraming ==
  \A c \in Conns :
    /\ IsPrefix(reqsRead[c], Messages(arrived[c]))
    /\ Serving(c) => FramesOf(reqsRead[c]) \o buf[c] \o c2s[c] = arrived[c]

\* Two calls of read have returned and a further whole message is still unread.
C1_Witness ==
  \E c \in Conns :
    pc[c] = "read" /\ Len(reqsRead[c]) >= 2 /\ Len(Messages(c2s[c])) >= 1

\* C2: on one connection the k-th write carries the answer to the k-th request
\* read, and when a write is due no byte after that request's delimiter has
\* been read, however many requests the client has sent ahead.
C2_NoPipelining ==
  \A c \in Conns :
    LET n == Len(reqsRead[c])
    IN  /\ Len(writes[c]) = IF pc[c] = "write" THEN n - 1 ELSE n
        /\ \A k \in 1..Len(writes[c]) : writes[c][k].msg = Response(reqsRead[c][k])
        /\ pc[c] = "write" =>
             /\ out[c].msg = Response(reqsRead[c][n])
             /\ FramesOf(reqsRead[c]) \o c2s[c] = arrived[c]

\* A write is due for the second request while two more requests wait unread.
C2_Witness ==
  \E c \in Conns :
    pc[c] = "write" /\ Len(reqsRead[c]) >= 2 /\ Len(Messages(c2s[c])) >= 2

\* C3: a failed write is the handler's last operation on the connection: no
\* write follows it and the handler is on its way out.
C3_WriteFailureTerminates ==
  \A c \in Conns :
    \A k \in 1..Len(writes[c]) :
      ~writes[c][k].ok => k = Len(writes[c]) /\ pc[c] \in {"closing", "exit"}

\* C4: an error from Accept never brings the server down.
C4_AcceptErrorTolerated == proc # "panicAccept"

\* C5: a handler that has left its loop, for whatever reason, has closed its
\* connection once and called wg.Done() once, the two together; a handler
\* still in its loop has done neither; and the WaitGroup has gone down by one
\* for every such call.
C5_ReleasedOnce ==
  /\ \A c \in Conns :
       /\ closes[c] <= 1
       /\ dones[c] = closes[c]
       /\ closes[c] = 1 <=> pc[c] = "exit"
       /\ pc[c] = "exit" => exitCause[c] \in {"eof", "timeout", "ioerr"}
  /\ wg = WgInitial - Cardinality({c \in Conns : dones[c] = 1})
                    - (IF cpc = "exit" THEN 1 ELSE 0)

\* Two handlers have finished, one on the peer's closure and one on a timeout.
C5_Witness ==
  \E c, d \in Conns :
    /\ pc[c] = "exit" /\ exitCause[c] = "eof"
    /\ pc[d] = "exit" /\ exitCause[d] = "timeout"

\* The tasks the counter stands for: serverGo and clientGo, which main's
\* wg.Add(2) counts (serverGo never calls wg.Done()), and the handlers that
\* have been spawned and have not finished.
RunningTasks ==
  1 + (IF cpc # "exit" THEN 1 ELSE 0)
  + Cardinality({c \in Conns : pc[c] \in {"read", "write", "closing"}})

\* C6: the WaitGroup's counter is never negative and equals the number of
\* tasks still running.
C6_TrackerCountsTasks == wg >= 0 /\ (Running => wg = RunningTasks)

\* C7: what a connection is sent is the framed answers to its own requests,
\* in the order it sent them, and nothing else.
C7_OwnResponsesOnly ==
  \A c \in Conns :
    LET got  == Messages(s2c[c])
        sent == Messages(arrived[c])
    IN  /\ s2c[c] = FramesOf(got)
        /\ Len(got) <= Len(sent)
        /\ \A k \in 1..Len(got) : got[k] = Response(sent[k])

\* Two connections are being served at once and have been sent different
\* answers.
C7_Witness ==
  \E c, d \in Conns :
    /\ c # d /\ Serving(c) /\ Serving(d)
    /\ Len(Messages(s2c[c])) >= 1 /\ Len(Messages(s2c[d])) >= 2
    /\ Messages(s2c[c])[1] # Messages(s2c[d])[1]

\* C8: after a read on some connection has failed, the process is still
\* running: its acceptor and its other handlers are not stopped by it.
C8_FailureStaysLocal ==
  (\E c \in Conns : exitCause[c] # "none") => proc \in {"running", "panicAccept"}

\* C9: a request that fails validation is answered with its error text, a
\* valid one with its result, and after the error text was written the
\* handler is reading again, its connection open.
C9_InvalidAnswered ==
  \A c \in Conns :
    /\ \A k \in 1..Len(writes[c]) :
         LET r == strToInt32(reqsRead[c][k])
             p == ParseInt(reqsRead[c][k])
         IN  IF r.ok
               THEN writes[c][k].msg = RespMsg(r.neg, r.mag)
               ELSE writes[c][k].msg = IF p.err = "none"
                                         THEN OutOfRangeMsg(p.neg, p.mag)
                                         ELSE NotIntegerMsg(reqsRead[c][k])
    /\ ( /\ writes[c] # <<>>
         /\ Len(writes[c]) = Len(reqsRead[c])
         /\ ~strToInt32(reqsRead[c][Len(reqsRead[c])]).ok
         /\ exitCause[c] = "none" )
       => pc[c] = "read" /\ closes[c] = 0

\* An invalid request was answered, and then a valid one on the same connection.
C9_Witness ==
  \E c \in Conns :
    /\ Len(writes[c]) >= 2
    /\ ~strToInt32(reqsRead[c][1]).ok /\ writes[c][1].ok
    /\ strToInt32(reqsRead[c][2]).ok /\ writes[c][2].ok

\* C10: while a call of read is under way the deadline is IdleTimeout after
\* the call's start; a connection being served has never been idle for more
\* than IdleTimeout, and once it has been idle that long its read can only
\* time out; a handler that timed out waited IdleTimeout and wrote nothing
\* for the read that timed out.
C10_IdleTimeout ==
  \A c \in Conns :
    /\ pc[c] = "read" => deadline[c] = IdleTimeout - waited[c]
    /\ Serving(c) => idle[c] <= IdleTimeout
    /\ (pc[c] = "read" /\ idle[c] >= IdleTimeout) => deadline[c] <= 0
    /\ exitCause[c] = "timeout" =>
         waited[c] = IdleTimeout /\ Len(writes[c]) = Len(reqsRead[c])

\* A connection was served a request, then stayed idle and was closed.
C10_Witness ==
  \E c \in Conns :
    /\ pc[c] = "exit" /\ exitCause[c] = "timeout" /\ closes[c] = 1
    /\ Len(writes[c]) >= 1 /\ idle[c] = IdleTimeout

\* C11: a handler ends by timeout only after IdleTimeout has passed with no
\* byte arriving on its connection: a sender whose bytes are always less than
\* IdleTimeout apart is never timed out, in the middle of a message as between
\* two messages.
C11_TimeoutOnlyWhenIdle ==
  \A c \in Conns : exitCause[c] = "timeout" => idle[c] >= IdleTimeout

\* C12: when the peer closes before a delimiter, read returns no message for
\* the bytes gathered so far: the handler that ended on the closure was given
\* exactly the delimited messages of what arrived, wrote one answer for each
\* of them and none for the unterminated rest, and released its connection
\* and its WaitGroup slot once.
C12_PartialNeverDelivered ==
  \A c \in Conns :
    exitCause[c] = "eof" =>
      /\ reqsRead[c] = Messages(arrived[c])
      /\ Len(writes[c]) = Len(reqsRead[c])
      /\ Len(Messages(s2c[c])) <= Len(reqsRead[c])
      /\ closes[c] <= 1 /\ dones[c] = closes[c]
      /\ pc[c] \in {"closing", "exit"}
      /\ pc[c] = "exit" => closes[c] = 1

\* A peer sent a whole request and then the start of another, and closed:
\* the handler has ended on the closure.
C12_Witness ==
  \E c \in Conns :
    /\ pc[c] = "exit" /\ exitCause[c] = "eof"
    /\ Len(reqsRead[c]) >= 1
    /\ arrived[c] # FramesOf(Messages(arrived[c]))

\* The read that fails on connection c in this step, with the condition its
\* error reports.
C13_FailsMatching(c) ==
  (exitCause[c] = "none" /\ exitCause'[c] # "none") =>
    /\ pc[c] = "read"
    /\ exitCause'[c] = "eof" => peerClosed[c] /\ c2s[c] = <<>>
    /\ exitCause'[c] = "timeout" => deadline[c] <= 0
    /\ exitCause'[c] = "ioerr" => broken[c]

\* Nothing more is read, processed or written by a handler whose read failed.
C13_StaysTerminal(c) ==
  exitCause[c] # "none" =>
    /\ exitCause'[c] = exitCause[c]
    /\ pc'[c] \in {"closing", "exit"}
    /\ Len(c2s'[c]) >= Len(c2s[c])
    /\ reqsRead'[c] = reqsRead[c]
    /\ out'[c] = out[c]
    /\ writes'[c] = writes[c]
    /\ s2c'[c] = s2c[c]

\* C13: a failed read puts the handler in the terminal state that matches
\* the failure (the peer's closure, the timeout, another I/O error) and out
\* of its loop; from then on the handler reads, processes and writes nothing
\* on that connection, and the terminal state is never left.
C13_ReadFailureTerminal ==
  /\ [](\A c \in Conns : exitCause[c] # "none" <=> pc[c] \in {"closing", "exit"})
  /\ [][\A c \in Conns : C13_FailsMatching(c) /\ C13_StaysTerminal(c)]_vars

\* Handlers have ended in two different terminal states, one on an I/O error
\* after it had answered a request, one on a timeout.
C13_Witness ==
  \E c, d \in Conns :
    /\ pc[c] = "exit" /\ exitCause[c] = "ioerr" /\ Len(writes[c]) >= 1
    /\ pc[d] = "exit" /\ exitCause[d] = "timeout"

\* C14: a transport read that returns no byte and no error adds nothing to
\* the message read is gathering and yields no message: what read has
\* returned and what it holds is always made of bytes that arrived, in their
\* order.
C14_ZeroReadAddsNothing ==
  \A c \in Conns :
    Serving(c) => IsPrefix(FramesOf(reqsRead[c]) \o buf[c], arrived[c])

\* C15: what read returns on one end of a connection is exactly what write
\* was given on the other end, call by call, for every content without the
\* delimiter, the empty one too.
C15_RoundTrip ==
  \A c \in Conns :
    /\ Len(reqsRead[c]) <= Len(peerMsgs[c])
    /\ \A k \in 1..Len(reqsRead[c]) : reqsRead[c][k] = peerMsgs[c][k]
    /\ (pc[c] = "read" /\ c2s[c] = <<>>) =>
         Len(reqsRead[c]) = Len(peerMsgs[c]) /\ buf[c] = <<>>

\* The empty content and then a content of nineteen bytes made the trip.
C15_Witness ==
  \E c \in Conns :
    /\ Len(reqsRead[c]) = 2 /\ pc[c] = "read"
    /\ reqsRead[c][1] = <<>> /\ reqsRead[c][2] = MaxInt64Mag

\* C16: a successful write(conn, content) puts on the connection, in one
\* step, the content followed by one delimiter and nothing else, and the
\* count it returns is the content's length plus one.
C16_WriteOneFrame ==
  [][\A c \in Conns :
       Len(writes'[c]) = Len(writes[c]) + 1 =>
         LET w == writes'[c][Len(writes'[c])]
         IN  w.ok => /\ s2c'[c] = s2c[c] \o w.msg \o <<DELIMITER>>
                     /\ w.n = Len(w.msg) + 1]_vars

\* An error text and a result have been written on one connection.
C16_Witness ==
  \E c \in Conns :
    /\ Len(writes[c]) = 2 /\ writes[c][1].ok /\ writes[c][2].ok
    /\ writes[c][1].msg = NotIntegerMsg(<<>>)
    /\ writes[c][2].msg = RespMsg(TRUE, <<"2", "7">>)
    /\ writes[c][2].n = 16

\* A base-10 integer literal: an optional sign and one or more digits; its
\* sign and its magnitude without leading zeros.
LitBody(str) == IF str # <<>> /\ Head(str) \in {"+", "-"} THEN Tail(str) ELSE str
IsIntLiteral(str) ==
  LitBody(str) # <<>> /\ \A i \in 1..Len(LitBody(str)) : IsDigit(LitBody(str)[i])
LitMag(str) == StripZeros(LitBody(str))
LitNeg(str) == str # <<>> /\ Head(str) = "-" /\ LitMag(str) # <<"0">>
InInt32(str) ==
  /\ IsIntLiteral(str)
  /\ CmpMag(LitMag(str), IF LitNeg(str) THEN MinInt32Mag ELSE MaxInt32Mag) <= 0
\* The decimal text of a value: no plus sign, no leading zero, no "-0".
IsDecimalText(str) ==
  /\ IsIntLiteral(str) /\ Head(str) # "+"
  /\ LitBody(str) = LitMag(str)
  /\ (Head(str) = "-" => LitMag(str) # <<"0">>)

\* C17: a request that is an integer literal with a value outside the int32
\* range, however large, is answered with the out-of-range text, which names
\* the value, and never with the not-integer text.
C17_OutOfRangeReported ==
  \A c \in Conns :
    \A k \in 1..Len(writes[c]) :
      LET str == reqsRead[c][k]
      IN  (IsIntLiteral(str) /\ ~InInt32(str)) =>
            writes[c][k].msg =
              FormatInt(LitNeg(str), LitMag(str)) \o <<" is not 32-bit integer">>

\* C18: a request that is the decimal text of a value of the int32 range,
\* its two ends included, is answered with the success message, which
\* repeats that text and gives the cube root with six fractional digits.
C18_Int32Answered ==
  \A c \in Conns :
    \A k \in 1..Len(writes[c]) :
      LET str == reqsRead[c][k]
          msg == writes[c][k].msg
      IN  /\ (IsDecimalText(str) /\ InInt32(str)) =>
               msg = <<"The cube root of ">> \o str \o <<" is ">> \o
                     CbrtText(LitNeg(str), LitMag(str)) \o <<".">>
          /\ str = <<"8">> =>
               msg = <<"The cube root of ", "8", " is ",
                       "2", ".", "0", "0", "0", "0", "0", "0", ".">>
          /\ str = <<"-", "2", "7">> =>
               msg = <<"The cube root of ", "-", "2", "7", " is ",
                       "-", "3", ".", "0", "0", "0", "0", "0", "0", ".">>

\* The two ends of the int32 range have been answered on one connection.
C18_Witness ==
  \E c \in Conns :
    /\ Len(writes[c]) = 2 /\ writes[c][1].ok /\ writes[c][2].ok
    /\ reqsRead[c] = << MaxInt32Mag, <<"-">> \o MinInt32Mag >>

\* C19: nothing a handler does holds the acceptor up: whenever a connection
\* has arrived and waits to be accepted, the acceptor is able to accept it
\* and to start its handler, whatever the handlers of the other connections
\* are doing or have done.  (A failure of Accept itself is C4's subject and
\* is left aside here.)
C19_AcceptorNeverHeldUp ==
  \A c \in Conns :
    (link[c] = "pending" /\ proc # "panicAccept") => ENABLED SrvAccept(c)

\* C20: main does not stay blocked in wg.Wait(): once serverGo and clientGo
\* have returned and no handler is left, the counter is zero, so that
\* wg.Wait() returns.
C20_WaitReturns ==
  ( /\ proc = "running"
    /\ srv = "returned" /\ cpc = "exit"
    /\ \A c \in Conns : pc[c] \in {"none", "exit"} )
  => wg = 0

====
